---- MODULE Spec2Model ----
(***************************************************************************)
(* GPU command-trace playback: xe::gpu::TracePlayer                        *)
(* (src/src/xenia/gpu/trace_player.cc).                                    *)
(*                                                                         *)
(* The trace buffer is a sequence of bytes; records are decoded from it    *)
(* with little-endian 32-bit loads, as the player does.  The seek          *)
(* operations run on the caller's thread and submit replay closures to     *)
(* the command processor's thread, which runs PlayTraceOnThread one        *)
(* record per step.                                                        *)
(***************************************************************************)
EXTENDS Integers, Sequences, FiniteSets, TLC

VARIABLES
  trace_data,             \* the trace buffer: Seq of bytes (offset o is trace_data[o+1])
  frames,                 \* the frame index: Seq of [start_ptr, end_ptr, commands]
  beyond,                 \* what a read of the index one past its last frame yields
  current_frame_index,    \* TracePlayer::current_frame_index_
  current_command_index,  \* TracePlayer::current_command_index_
  pending_fns,            \* closures handed to CallInThread, not yet run
  pc,                     \* worker position: "idle" or "loop" (inside PlayTraceOnThread);
                          \* "fault" once the process has died on an invalid read
  args,                   \* PlayTraceOnThread's arguments of the running/last invocation
  loc,                    \* its locals: trace_ptr, pending_break, pending_packet
  mem,                    \* physical memory: [0..MemSize-1 -> byte]
  swap_mode,              \* CommandProcessor swap mode
  playing_trace,          \* TracePlayer::playing_trace_
  player_ptrs,            \* player_start_ptr_, player_target_ptr_, player_current_ptr_
  executed,               \* ExecutePacket calls of the running/last invocation
  visited,                \* offsets of the records the running/last invocation processed
  issued_swaps,           \* number of IssueSwap calls so far
  ended,                  \* history: how each finished invocation ended
  ran,                    \* history: the replays the worker has started, in order
  submitted,              \* history: the replays PlayTrace has submitted, in order
  call_log                \* history: the seek calls made, with the cursor before each

vars == <<trace_data, frames, beyond, current_frame_index, current_command_index,
          pending_fns, pc, args, loc, mem, swap_mode, playing_trace,
          player_ptrs, executed, visited, issued_swaps, ended, ran, submitted,
          call_log>>

-----------------------------------------------------------------------------
(* Bounds of the model *)

MaxCmds == 2     \* commands per generated frame
MaxSeeks == 3    \* seek calls per behaviour
MemSize == 8     \* bytes of physical memory modelled

-----------------------------------------------------------------------------
(* Trace protocol: type tags and record headers *)

kPrimaryBufferStart == 0
kPrimaryBufferEnd == 1
kIndirectBufferStart == 2
kIndirectBufferEnd == 3
kPacketStart == 4
kPacketEnd == 5
kMemoryRead == 6
kMemoryWrite == 7
kEvent == 8

kSwap == 0          \* EventType::kSwap
kOtherEvent == 1    \* any event type that is not kSwap

\* sizeof of each record header, in bytes: a 4-byte tag and 4-byte fields
SizeofBufferStart == 8      \* type, count
SizeofBufferEnd == 4        \* type
SizeofPacketStart == 12     \* type, base_ptr, count
SizeofPacketEnd == 4        \* type
SizeofMemoryRead == 16      \* type, base_ptr, length, full_length
SizeofMemoryWrite == 8      \* type, length
SizeofEvent == 8            \* type, event_type

NullPtr == -1               \* nullptr, as an offset into the trace buffer

\* little-endian bytes of a 32-bit value (the trace writer's layout)
LE32(n) == <<n % 256, (n \div 256) % 256, (n \div 65536) % 256,
             (n \div 16777216) % 256>>

-----------------------------------------------------------------------------
(* Reading the trace buffer *)

Byte(buf, o) == buf[o + 1]

\* xe::load<uint32_t>(ptr) and the 32-bit fields of the record structs.  The
\* traces of the model keep every field below 2^24, so count * 4 and the
\* pointer sums never reach the 32-bit wrap.
Load32(buf, o) == Byte(buf, o) + 256 * Byte(buf, o + 1)
                  + 65536 * Byte(buf, o + 2) + 16777216 * Byte(buf, o + 3)

Bytes(buf, o, n) == [i \in 1..n |-> Byte(buf, o + i - 1)]

\* std::memcpy(memory->TranslatePhysical(base), src, n)
Memcpy(m, base, src) ==
  [a \in DOMAIN m |-> IF a >= base /\ a < base + Len(src)
                      THEN src[a - base + 1] ELSE m[a]]

\* The block decompressor: run-length pairs <<n, b>> expand to n copies of b.
RECURSIVE Decompress(_)
Decompress(src) ==
  IF Len(src) < 2 THEN <<>>
  ELSE [i \in 1..src[1] |-> src[2]] \o Decompress(SubSeq(src, 3, Len(src)))

\* TraceReader::DecompressMemory(src, src_len, dest, dest_len): everything
\* the decompressor yields lands at dest; the call reports whether the block
\* had the declared length.
DecompressMemory(m, base, src, full_length) ==
  [mem |-> Memcpy(m, base, Decompress(src)),
   ok |-> Len(Decompress(src)) = full_length]

-----------------------------------------------------------------------------
(* PlayTraceOnThread: one iteration of the replay loop.                    *)
(* s = [trace_ptr, pending_break, pending_packet, mem, executed, visited,  *)
(*      returned]; each operator is one case of the switch.                *)

StepBufferStart(buf, s) ==
  LET p == s.trace_ptr
      count == Load32(buf, p + 4)
  IN  [s EXCEPT !.trace_ptr = p + SizeofBufferStart + count * 4]

\* Mutant: the cursor stays on the record.
StepBufferEndStays(buf, s) == s

StepBufferEnd(buf, s) ==
  [s EXCEPT !.trace_ptr = s.trace_ptr + SizeofBufferEnd]

\* Mutant: the packet's words are not copied to physical memory.
StepPacketStartNoCopy(buf, s) ==
  LET p == s.trace_ptr
      count == Load32(buf, p + 8)
  IN  [s EXCEPT !.trace_ptr = p + SizeofPacketStart + count * 4,
                !.pending_packet = p]

StepPacketStart(buf, s) ==
  LET p == s.trace_ptr
      base_ptr == Load32(buf, p + 4)
      count == Load32(buf, p + 8)
      payload == p + SizeofPacketStart
  IN  [s EXCEPT !.mem = Memcpy(s.mem, base_ptr, Bytes(buf, payload, count * 4)),
                !.trace_ptr = payload + count * 4,
                !.pending_packet = p]

StepPacketEnd(buf, s) ==
  LET pp == s.pending_packet
      t == IF pp # NullPtr
           THEN [s EXCEPT !.executed = Append(s.executed,
                               [cmd |-> pp, at |-> s.trace_ptr,
                                base_ptr |-> Load32(buf, pp + 4),
                                count |-> Load32(buf, pp + 8)]),
                          !.pending_packet = NullPtr]
           ELSE s
  IN  [t EXCEPT !.trace_ptr = s.trace_ptr + SizeofPacketEnd,
                !.returned = s.pending_break]

\* The outcome DecompressMemory reports is not looked at (line 160).
StepMemoryRead(buf, s) ==
  LET p == s.trace_ptr
      base_ptr == Load32(buf, p + 4)
      length == Load32(buf, p + 8)
      full_length == Load32(buf, p + 12)
      payload == p + SizeofMemoryRead
  IN  [s EXCEPT !.mem = IF full_length # 0
                        THEN DecompressMemory(s.mem, base_ptr,
                                              Bytes(buf, payload, length),
                                              full_length).mem
                        ELSE Memcpy(s.mem, base_ptr, Bytes(buf, payload, length)),
                !.trace_ptr = payload + length]

\* Mutant: the written bytes are applied to physical memory.
StepMemoryWriteApplies(buf, s) ==
  LET p == s.trace_ptr
      length == Load32(buf, p + 4)
  IN  [s EXCEPT !.mem = Memcpy(s.mem, 0, Bytes(buf, p + SizeofMemoryWrite, length)),
                !.trace_ptr = p + SizeofMemoryWrite + length]

StepMemoryWrite(buf, s) ==
  LET p == s.trace_ptr
      length == Load32(buf, p + 4)
  IN  [s EXCEPT !.trace_ptr = p + SizeofMemoryWrite + length]

\* Mutant: the Swap event never requests the stop.
StepEventNoBreak(buf, mode, s) ==
  [s EXCEPT !.trace_ptr = s.trace_ptr + SizeofEvent]

\* Mutant: the replay returns at the Swap event itself.
StepEventStops(buf, mode, s) ==
  LET event_type == Load32(buf, s.trace_ptr + 4)
      stop == event_type = kSwap /\ mode = "kBreakOnSwap"
  IN  [s EXCEPT !.trace_ptr = s.trace_ptr + SizeofEvent,
                !.pending_break = stop \/ s.pending_break,
                !.returned = stop]

StepEvent(buf, mode, s) ==
  LET p == s.trace_ptr
      event_type == Load32(buf, p + 4)
  IN  [s EXCEPT !.trace_ptr = p + SizeofEvent,
                !.pending_break = IF event_type = kSwap /\ mode = "kBreakOnSwap"
                                  THEN TRUE ELSE s.pending_break]

\* The switch has no default: an unknown tag changes nothing and the loop
\* comes back to the same record.
PlayStep(buf, mode, s) ==
  LET type == Load32(buf, s.trace_ptr)
      v == [s EXCEPT !.visited = Append(s.visited, s.trace_ptr)]
  IN  CASE type = kPrimaryBufferStart -> StepBufferStart(buf, v)
        [] type = kPrimaryBufferEnd -> StepBufferEnd(buf, v)
        [] type = kIndirectBufferStart -> StepBufferStart(buf, v)
        [] type = kIndirectBufferEnd -> StepBufferEnd(buf, v)
        [] type = kPacketStart -> StepPacketStart(buf, v)
        [] type = kPacketEnd -> StepPacketEnd(buf, v)
        [] type = kMemoryRead -> StepMemoryRead(buf, v)
        [] type = kMemoryWrite -> StepMemoryWrite(buf, v)
        [] type = kEvent -> StepEvent(buf, mode, v)
        [] OTHER -> s

\* The locals at loop entry (lines 100-102), over memory m.
PlayEntry(data, m) ==
  [trace_ptr |-> data, pending_break |-> FALSE, pending_packet |-> NullPtr,
   mem |-> m, executed |-> <<>>, visited |-> <<>>, returned |-> FALSE]

\* The whole loop over [data, data + size), as one function of memory.
RECURSIVE PlayLoop(_, _, _, _)
PlayLoop(buf, mode, target, s) ==
  IF s.returned \/ ~(s.trace_ptr < target) THEN s
  ELSE PlayLoop(buf, mode, target, PlayStep(buf, mode, s))

\* Mutant: the early return presents like the epilogue does.
EarlyReturnPresents(st) == [st EXCEPT !.issued_swaps = st.issued_swaps + 1]

\* The early return of the kPacketEnd case (line 152): nothing is restored.
EarlyReturn(st) == st

\* The epilogue after the loop (lines 193-195).
Epilogue(st) ==
  [playing_trace |-> FALSE, swap_mode |-> "kNormal",
   issued_swaps |-> st.issued_swaps + 1]

-----------------------------------------------------------------------------
(* Seek controller *)

frame_count == Len(frames)

\* The answer "no frame" (nullptr) of current_frame().
NullFrame == [start_ptr |-> NullPtr, end_ptr |-> NullPtr, commands |-> <<>>]

\* The mark of a frame whose storage cannot be read: a read through the
\* pointer faults.  No frame of an index ends before it starts.
Unreadable == [start_ptr |-> 0, end_ptr |-> NullPtr, commands |-> <<>>]

\* A frame with no commands, as zeroed storage reads.
ZeroFrame == [start_ptr |-> 0, end_ptr |-> 0, commands |-> <<>>]

\* TraceReader::frame(n): &frames_[n].  The index is not checked: n =
\* frame_count addresses the storage one past the last frame.
frame(n) == IF n < frame_count THEN frames[n + 1] ELSE beyond

\* TracePlayer::current_frame(), read with current_frame_index_ = idx
current_frame(idx) == IF idx > frame_count THEN NullFrame ELSE frame(idx)

Closure(data, size, mode) ==
  [trace_data |-> data, trace_size |-> size, playback_mode |-> mode]

\* Mutant: the closure is put ahead of the waiting ones.
PlayTraceFirst(q, data, size, mode) == <<Closure(data, size, mode)>> \o q

\* TracePlayer::PlayTrace: hands the closure to CallInThread, which queues it.
PlayTrace(q, data, size, mode) == Append(q, Closure(data, size, mode))

\* The command processor's thread takes the closures in submission order.
Dequeue(q) == [fn |-> Head(q), rest |-> Tail(q)]

\* Mutant: SeekFrame never takes the early return.
NeverAtFrame(target_frame) == FALSE

\* The early return of SeekFrame (line 43).
AtFrame(target_frame) == current_frame_index = target_frame

\* Mutant: the command index is set one past the last command.
CommandCount(f) == Len(f.commands)

\* int(frame->commands.size()) - 1
LastCommandIndex(f) == Len(f.commands) - 1

\* Mutant: every seek to a command other than the first takes the delta path.
IsLaterCommand(previous_command_index, target_command) == target_command # 0

\* Mutant: every forward seek takes the delta path.
IsForward(previous_command_index, target_command) ==
  target_command # 0 /\ previous_command_index < target_command

\* The "seek forward" condition of SeekCommand (line 67).
IsNextCommand(previous_command_index, target_command) ==
  target_command # 0 /\ previous_command_index = target_command - 1

\* What SeekFrame(target_frame) assigns and plays.
SeekFrameEffect(target_frame) ==
  IF AtFrame(target_frame)
  THEN [frame_index |-> current_frame_index,
        command_index |-> current_command_index, plays |-> <<>>]
  ELSE LET f == current_frame(target_frame)
       IN  [frame_index |-> target_frame,
            command_index |-> LastCommandIndex(f),
            plays |-> <<Closure(f.start_ptr, f.end_ptr - f.start_ptr,
                                "kBreakOnSwap")>>]

\* What SeekCommand(target_command) assigns and plays.
SeekCommandEffect(target_command) ==
  LET previous_command_index == current_command_index
      same == [frame_index |-> current_frame_index,
               command_index |-> current_command_index, plays |-> <<>>]
  IN  IF current_command_index = target_command THEN same
      ELSE IF target_command = -1
      THEN [same EXCEPT !.command_index = target_command]
      ELSE LET f == current_frame(current_frame_index)
               command == f.commands[target_command + 1]
           IN  IF IsNextCommand(previous_command_index, target_command)
               THEN LET previous_command == f.commands[target_command]
                    IN  [same EXCEPT
                           !.command_index = target_command,
                           !.plays = <<Closure(previous_command.end_ptr,
                                       command.end_ptr - previous_command.end_ptr,
                                       "kBreakOnSwap")>>]
               ELSE [same EXCEPT
                       !.command_index = target_command,
                       !.plays = <<Closure(f.start_ptr,
                                           command.end_ptr - f.start_ptr,
                                           "kBreakOnSwap")>>]

Call(op, target) ==
  [op |-> op, target |-> target, frame_index |-> current_frame_index,
   command_index |-> current_command_index, submitted |-> Len(submitted)]

\* The read through the frame pointer faults: the process dies inside the
\* call, after line 46 has stored the index.
SeekFault(op, target) ==
  /\ Len(call_log) < MaxSeeks
  /\ pc # "fault"
  /\ call_log' = Append(call_log, Call(op, target))
  /\ current_frame_index' = target
  /\ pc' = "fault"
  /\ UNCHANGED <<trace_data, frames, beyond, current_command_index, pending_fns,
                 args, loc, mem, swap_mode, playing_trace, player_ptrs, executed,
                 visited, issued_swaps, ended, ran, submitted>>

ApplySeek(op, target, e) ==
  /\ Len(call_log) < MaxSeeks
  /\ pc # "fault"
  /\ call_log' = Append(call_log, Call(op, target))
  /\ current_frame_index' = e.frame_index
  /\ current_command_index' = e.command_index
  /\ pending_fns' = IF e.plays = <<>> THEN pending_fns
                    ELSE PlayTrace(pending_fns, e.plays[1].trace_data,
                                   e.plays[1].trace_size, e.plays[1].playback_mode)
  /\ submitted' = submitted \o e.plays
  /\ UNCHANGED <<trace_data, frames, beyond, pc, args, loc, mem, swap_mode,
                 playing_trace, player_ptrs, executed, visited, issued_swaps,
                 ended, ran>>

SeekFrameIn(targets) ==
  \E target_frame \in targets :
    IF ~AtFrame(target_frame) /\ current_frame(target_frame) = Unreadable
    THEN SeekFault("SeekFrame", target_frame)
    ELSE ApplySeek("SeekFrame", target_frame, SeekFrameEffect(target_frame))

\* SeekFrame with a target inside the index.
SeekFrame == SeekFrameIn(0..(frame_count - 1))

\* SeekFrame with any target up to frame_count: the targets for which
\* current_frame() does not answer nullptr.
SeekFrameAny == SeekFrameIn(0..frame_count)

SeekCommand ==
  \E target_command \in -1..(Len(frame(current_frame_index).commands) - 1) :
    ApplySeek("SeekCommand", target_command, SeekCommandEffect(target_command))

-----------------------------------------------------------------------------
(* The command processor's thread *)

player_target == args.trace_data + args.trace_size

\* The running invocation's loop state, as PlayStep takes it.
LoopState ==
  [trace_ptr |-> loc.trace_ptr, pending_break |-> loc.pending_break,
   pending_packet |-> loc.pending_packet, mem |-> mem, executed |-> executed,
   visited |-> visited, returned |-> FALSE]

Backend ==
  [playing_trace |-> playing_trace, swap_mode |-> swap_mode,
   issued_swaps |-> issued_swaps]

\* A queued closure starts: PlayTraceOnThread up to the loop (lines 91-102).
WorkerStart ==
  /\ pc = "idle"
  /\ pending_fns # <<>>
  /\ LET d == Dequeue(pending_fns)
         e == PlayEntry(d.fn.trace_data, mem)
     IN  /\ pending_fns' = d.rest
         /\ ran' = Append(ran, d.fn)
         /\ args' = d.fn
         /\ player_ptrs' = [start |-> d.fn.trace_data,
                            target |-> d.fn.trace_data + d.fn.trace_size,
                            current |-> d.fn.trace_data]
         /\ loc' = [trace_ptr |-> e.trace_ptr, pending_break |-> e.pending_break,
                    pending_packet |-> e.pending_packet]
         /\ executed' = e.executed
         /\ visited' = e.visited
  /\ swap_mode' = "kIgnored"
  /\ playing_trace' = TRUE
  /\ pc' = "loop"
  /\ UNCHANGED <<trace_data, frames, beyond, current_frame_index, current_command_index,
                 mem, issued_swaps, ended, submitted, call_log>>

\* One iteration of the while loop (lines 103-191), with the early return.
WorkerStep ==
  /\ pc = "loop"
  /\ loc.trace_ptr < player_target
  /\ LET n == PlayStep(trace_data, args.playback_mode, LoopState)
         b == IF n.returned THEN EarlyReturn(Backend) ELSE Backend
     IN  /\ loc' = [trace_ptr |-> n.trace_ptr, pending_break |-> n.pending_break,
                    pending_packet |-> n.pending_packet]
         /\ mem' = n.mem
         /\ executed' = n.executed
         /\ visited' = n.visited
         /\ pc' = IF n.returned THEN "idle" ELSE "loop"
         /\ ended' = IF n.returned THEN Append(ended, "return") ELSE ended
         /\ playing_trace' = b.playing_trace
         /\ swap_mode' = b.swap_mode
         /\ issued_swaps' = b.issued_swaps
  /\ player_ptrs' = [player_ptrs EXCEPT !.current = loc.trace_ptr]
  /\ UNCHANGED <<trace_data, frames, beyond, current_frame_index, current_command_index,
                 pending_fns, args, ran, submitted, call_log>>

\* The loop condition fails: the epilogue (lines 193-195).
WorkerFinish ==
  /\ pc = "loop"
  /\ ~(loc.trace_ptr < player_target)
  /\ LET b == Epilogue(Backend)
     IN  /\ playing_trace' = b.playing_trace
         /\ swap_mode' = b.swap_mode
         /\ issued_swaps' = b.issued_swaps
  /\ pc' = "idle"
  /\ ended' = Append(ended, "end")
  /\ UNCHANGED <<trace_data, frames, beyond, current_frame_index, current_command_index,
                 pending_fns, args, loc, mem, player_ptrs, executed, visited,
                 ran, submitted, call_log>>

-----------------------------------------------------------------------------
(* Traces: records as the trace writer lays them out, commands, frames *)

RecBufferStart(tag, words) == LE32(tag) \o LE32(Len(words) \div 4) \o words
RecBufferEnd(tag) == LE32(tag)
RecPacketStart(base_ptr, words) ==
  LE32(kPacketStart) \o LE32(base_ptr) \o LE32(Len(words) \div 4) \o words
RecPacketEnd == LE32(kPacketEnd)
RecMemoryRead(base_ptr, payload, full_length) ==
  LE32(kMemoryRead) \o LE32(base_ptr) \o LE32(Len(payload)) \o LE32(full_length)
  \o payload
RecMemoryWrite(payload) == LE32(kMemoryWrite) \o LE32(Len(payload)) \o payload
RecEvent(event_type) == LE32(kEvent) \o LE32(event_type)

\* Top-level commands
CmdSwapInPacket ==
  RecPacketStart(4, <<187, 0, 0, 0>>) \o RecEvent(kSwap) \o RecPacketEnd
CmdPacketSwapPacket ==
  RecPacketStart(0, <<153, 0, 0, 0>>) \o RecPacketEnd \o RecEvent(kSwap)
  \o RecPacketStart(0, <<204, 0, 0, 0>>) \o RecPacketEnd
CmdOpenPacket ==
  RecMemoryRead(2, <<1, 2>>, 0) \o RecPacketStart(0, <<238, 0, 0, 0>>)
CmdClosePacket == RecMemoryRead(6, <<2, 9>>, 2) \o RecPacketEnd
CmdMisc ==
  RecMemoryWrite(<<5, 5>>) \o RecBufferStart(kPrimaryBufferStart, <<7, 7, 7, 7>>)
  \o RecBufferStart(kIndirectBufferStart, <<>>) \o RecEvent(kOtherEvent)
  \o RecBufferEnd(kIndirectBufferEnd) \o RecBufferEnd(kPrimaryBufferEnd)

\* Damaged trace content: a record with a tag past the last known one, a
\* compressed block one byte shorter than its header declares, and a
\* MemoryWrite cut off inside its payload.
RecUnknown == LE32(kEvent + 1)
CmdUnknownTag ==
  RecMemoryRead(2, <<1, 2>>, 0) \o RecUnknown \o RecPacketEnd
CmdShortBlock ==
  RecMemoryRead(6, <<2, 9>>, 3) \o RecPacketStart(0, <<170, 0, 0, 0>>)
  \o RecPacketEnd
CmdTruncatedWrite == LE32(kMemoryWrite) \o LE32(1000) \o <<5, 5>>

LibraryAny == {CmdUnknownTag, CmdShortBlock, CmdTruncatedWrite, CmdClosePacket}

Library == {CmdSwapInPacket, CmdPacketSwapPacket, CmdOpenPacket, CmdClosePacket}

RECURSIVE Concat(_)
Concat(ss) == IF ss = <<>> THEN <<>> ELSE Head(ss) \o Concat(Tail(ss))

\* The frame index of a frame made of cmds, laid out from offset start.
MakeFrame(start, cmds) ==
  [start_ptr |-> start,
   end_ptr |-> start + Len(Concat(cmds)),
   commands |-> [i \in 1..Len(cmds) |->
                   [end_ptr |-> start + Len(Concat(SubSeq(cmds, 1, i)))]]]

FrameChoices == UNION {[1..n -> Library] : n \in 1..MaxCmds}

FrameChoicesAny == UNION {[1..n -> LibraryAny] : n \in 1..MaxCmds}

LastFrame == <<CmdMisc, CmdSwapInPacket>>

InitMem == [a \in 0..(MemSize - 1) |-> 0]

-----------------------------------------------------------------------------

\* The player right after construction, over a trace whose first frame is f0.
Constructed(f0) ==
  /\ trace_data = Concat(f0) \o Concat(LastFrame)
  /\ frames = <<MakeFrame(0, f0), MakeFrame(Len(Concat(f0)), LastFrame)>>
  /\ current_frame_index = 0
  /\ current_command_index = -1
  /\ pending_fns = <<>>
  /\ pc = "idle"
  /\ args = Closure(0, 0, "kBreakOnSwap")
  /\ loc = [trace_ptr |-> 0, pending_break |-> FALSE, pending_packet |-> NullPtr]
  /\ mem = InitMem
  /\ swap_mode = "kNormal"
  /\ playing_trace = FALSE
  /\ player_ptrs = [start |-> 0, target |-> 0, current |-> 0]
  /\ executed = <<>>
  /\ visited = <<>>
  /\ issued_swaps = 0
  /\ ended = <<>>
  /\ ran = <<>>
  /\ submitted = <<>>
  /\ call_log = <<>>

\* What the storage one past the index can read as: it faults, it is
\* zeroed, or it holds a stale copy of a frame.
BeyondChoices == {Unreadable, ZeroFrame, frames[1]}

\* Well-formed traces; seek targets stay inside the index, so the storage
\* past it is never read.
Init ==
  /\ \E f0 \in FrameChoices : Constructed(f0)
  /\ beyond = Unreadable

\* Any trace file and any seek target.
InitAny ==
  /\ \E f0 \in FrameChoicesAny : Constructed(f0)
  /\ beyond \in BeyondChoices

Next == SeekFrame \/ SeekCommand \/ WorkerStart \/ WorkerStep \/ WorkerFinish

Spec == Init /\ [][Next]_vars

NextAny ==
  SeekFrameAny \/ SeekCommand \/ WorkerStart \/ WorkerStep \/ WorkerFinish

SpecAny == InitAny /\ [][NextAny]_vars

\* The offsets the frame index names: frame starts and command ends.
CommandBoundaries ==
  {frames[i].start_ptr : i \in DOMAIN frames}
  \cup UNION {{frames[i].commands[j].end_ptr : j \in DOMAIN frames[i].commands} :
              i \in DOMAIN frames}

\* TracePlaybackMode
PlaybackModes == {"kUntilEnd", "kBreakOnSwap"}

\* TracePlayer::PlayTrace called directly, once, on the new player, with a
\* range between two offsets of the index and either mode.
PlayTraceCall ==
  /\ submitted = <<>>
  /\ \E from \in CommandBoundaries, to \in CommandBoundaries,
         mode \in PlaybackModes :
       /\ from <= to
       /\ pending_fns' = PlayTrace(pending_fns, from, to - from, mode)
       /\ submitted' = Append(submitted, Closure(from, to - from, mode))
  /\ UNCHANGED <<trace_data, frames, beyond, current_frame_index,
                 current_command_index, pc, args, loc, mem, swap_mode,
                 playing_trace, player_ptrs, executed, visited, issued_swaps,
                 ended, ran, call_log>>

ReplayNext == PlayTraceCall \/ WorkerStart \/ WorkerStep \/ WorkerFinish

\* One replay of a range of a well-formed trace.  The command processor's
\* thread keeps running: a queued closure is started, a running loop goes
\* on to its next iteration or to its end.
ReplaySpec ==
  /\ Init
  /\ [][ReplayNext]_vars
  /\ WF_vars(WorkerStart) /\ WF_vars(WorkerStep) /\ WF_vars(WorkerFinish)

-----------------------------------------------------------------------------
(* Properties *)

\* The length of the record at offset o, as its header declares it.
RecordSize(buf, o) ==
  LET type == Load32(buf, o)
  IN  CASE type = kPrimaryBufferStart -> SizeofBufferStart + Load32(buf, o + 4) * 4
        [] type = kPrimaryBufferEnd -> SizeofBufferEnd
        [] type = kIndirectBufferStart -> SizeofBufferStart + Load32(buf, o + 4) * 4
        [] type = kIndirectBufferEnd -> SizeofBufferEnd
        [] type = kPacketStart -> SizeofPacketStart + Load32(buf, o + 8) * 4
        [] type = kPacketEnd -> SizeofPacketEnd
        [] type = kMemoryRead -> SizeofMemoryRead + Load32(buf, o + 8)
        [] type = kMemoryWrite -> SizeofMemoryWrite + Load32(buf, o + 4)
        [] type = kEvent -> SizeofEvent

\* The offsets of the records of [from, to), in order.
RECURSIVE Scan(_, _, _)
Scan(buf, from, to) ==
  IF ~(from < to) THEN <<>>
  ELSE <<from>> \o Scan(buf, from + RecordSize(buf, from), to)

IsType(o, type) == Load32(trace_data, o) = type
IsSwap(o) == IsType(o, kEvent) /\ Load32(trace_data, o + 4) = kSwap

Last(seq) == seq[Len(seq)]
IsPrefix(a, b) == Len(a) <= Len(b) /\ a = SubSeq(b, 1, Len(a))

\* Every submitted replay has run and returned.
Quiescent == pc = "idle" /\ pending_fns = <<>>

\* An invocation has run and returned, none is running.
Returned == pc = "idle" /\ ran # <<>>

\* The records of the range of the running (or last) invocation.
RangeRecords == Scan(trace_data, args.trace_data, player_target)

\* ---- C1 ----

\* The calls so far are exactly SeekCommand(0), ..., SeekCommand(c), made on
\* the freshly constructed player (frame 0, command -1).
SteppedTo(c) ==
  /\ Len(call_log) = c + 1
  /\ \A i \in 1..(c + 1) :
       call_log[i].op = "SeekCommand" /\ call_log[i].target = i - 1

\* Memory after one replay of [frame 0 start, commands[c].end) from InitMem.
FullPathMemory(c) ==
  PlayLoop(trace_data, "kBreakOnSwap", frame(0).commands[c + 1].end_ptr,
           PlayEntry(frame(0).start_ptr, InitMem)).mem

\* C1: for every command index c of the frame, once the replays of the steps
\* SeekCommand(0), ..., SeekCommand(c) from command -1 have all run, physical
\* memory equals the memory one full-path replay of [frame.start,
\* commands[c].end) produces.
C1_SteppingEqualsFullReplay ==
  \A c \in 0..(Len(frame(0).commands) - 1) :
    (SteppedTo(c) /\ Quiescent) => mem = FullPathMemory(c)

\* ---- C2 ----

\* recs[i..i+4] are PacketStart, PacketEnd, Event(Swap), PacketStart,
\* PacketEnd, and no Swap event comes before recs[i+2].
SwapBetweenPackets(recs, i) ==
  /\ i + 4 <= Len(recs)
  /\ IsType(recs[i], kPacketStart)
  /\ IsType(recs[i + 1], kPacketEnd)
  /\ IsSwap(recs[i + 2])
  /\ IsType(recs[i + 3], kPacketStart)
  /\ IsType(recs[i + 4], kPacketEnd)
  /\ \A j \in 1..(i + 1) : ~IsSwap(recs[j])

ExecutedFor(o) == \E k \in DOMAIN executed : executed[k].cmd = o

\* C2 as claimed: with packet P1, then Event(Swap), then packet P2 in the
\* range, the replay halts at P1's PacketEnd and ExecutePacket is never
\* invoked for P2.
C2_HaltsAtFirstPacketEnd ==
  LET recs == RangeRecords
  IN  \A i \in DOMAIN recs :
        (ran # <<>> /\ SwapBetweenPackets(recs, i)) =>
          /\ ~ExecutedFor(recs[i + 3])
          /\ Returned => Last(visited) = recs[i + 1]

\* C2 amended: the replay executes P1 and also P2 and halts immediately
\* after P2's PacketEnd, the first PacketEnd that follows the Swap event; no
\* record after it is processed.
C2_HaltsAtPacketEndAfterSwap ==
  LET recs == RangeRecords
  IN  \A i \in DOMAIN recs :
        (ran # <<>> /\ SwapBetweenPackets(recs, i)) =>
          /\ IsPrefix(visited, SubSeq(recs, 1, i + 4))
          /\ Returned =>
               /\ visited = SubSeq(recs, 1, i + 4)
               /\ ExecutedFor(recs[i]) /\ ExecutedFor(recs[i + 3])
               /\ loc.trace_ptr = recs[i + 4] + SizeofPacketEnd
               /\ Last(ended) = "return"

\* A replay over P1, Swap, P2 and further records has halted.
C2_Witness ==
  LET recs == RangeRecords
  IN  /\ Returned
      /\ \E i \in DOMAIN recs :
           /\ SwapBetweenPackets(recs, i)
           /\ i + 4 < Len(recs)
           /\ Last(visited) = recs[i + 4]

\* ---- C3 ----

\* C3: the replays the execution context has started are exactly the first
\* submitted ones, in submission order, the rest wait in the queue in that
\* order (none skipped, none overtaken); a replay starts only after every
\* earlier one has ended; and after every seek call the cursor field the
\* call sets equals its target, whether or not its replay has run.
C3_ReplaysRunInSubmissionOrder ==
  /\ submitted = ran \o pending_fns
  /\ Len(ended) = Len(ran) - (IF pc = "loop" THEN 1 ELSE 0)
  /\ pc = "loop" => args = Last(ran)
  /\ call_log # <<>> =>
       LET c == Last(call_log)
       IN  /\ c.op = "SeekFrame" => current_frame_index = c.target
           /\ c.op = "SeekCommand" => current_command_index = c.target

\* Two seeks have returned with the cursor at their targets; the first
\* replay is running, the second still waits in the queue.
C3_Witness ==
  /\ Len(call_log) = 2
  /\ call_log[1].op = "SeekFrame" /\ call_log[2].op = "SeekCommand"
  /\ Len(submitted) = 2 /\ submitted[1] # submitted[2]
  /\ current_frame_index = call_log[1].target
  /\ current_command_index = call_log[2].target
  /\ pc = "loop" /\ visited # <<>>
  /\ ran = <<submitted[1]>> /\ pending_fns = <<submitted[2]>>

\* ---- C4, C5, C6: what each seek call did ----

\* The cursor and the number of submitted replays right after call j.
AfterCall(j) ==
  IF j = Len(call_log)
  THEN [frame_index |-> current_frame_index,
        command_index |-> current_command_index,
        submitted |-> Len(submitted)]
  ELSE [frame_index |-> call_log[j + 1].frame_index,
        command_index |-> call_log[j + 1].command_index,
        submitted |-> call_log[j + 1].submitted]

\* The replays call j submitted.
PlaysOf(j) == SubSeq(submitted, call_log[j].submitted + 1, AfterCall(j).submitted)

SameTarget(c) ==
  \/ c.op = "SeekFrame" /\ c.target = c.frame_index
  \/ c.op = "SeekCommand" /\ c.target = c.command_index

\* C4: a seek whose target equals the current position submits no replay
\* and leaves both cursor fields unchanged; the same seek made twice in a
\* row submits at most one replay.
C4_SeekToCurrentIsNoOp ==
  /\ \A j \in DOMAIN call_log :
       SameTarget(call_log[j]) =>
         /\ PlaysOf(j) = <<>>
         /\ AfterCall(j).frame_index = call_log[j].frame_index
         /\ AfterCall(j).command_index = call_log[j].command_index
  /\ \A j \in DOMAIN call_log :
       (j > 1 /\ call_log[j].op = call_log[j - 1].op
              /\ call_log[j].target = call_log[j - 1].target) =>
         Len(PlaysOf(j - 1)) + Len(PlaysOf(j)) <= 1

\* The same seek was made twice in a row, the first one submitting a replay.
C4_Witness ==
  \E j \in DOMAIN call_log :
    /\ j > 1
    /\ call_log[j].op = call_log[j - 1].op
    /\ call_log[j].target = call_log[j - 1].target
    /\ Len(PlaysOf(j - 1)) = 1
    /\ PlaysOf(j) = <<>>

\* SeekFrame(F) left the cursor on frame F, at its last command, and
\* submitted exactly the replay of [F.start, F.end) with BreakOnSwap.
SeekFrameDone(j) ==
  LET F == call_log[j].target
  IN  /\ AfterCall(j).frame_index = F
      /\ current_frame(AfterCall(j).frame_index) = frames[F + 1]
      /\ AfterCall(j).command_index = Len(frames[F + 1].commands) - 1
      /\ PlaysOf(j) = <<Closure(frames[F + 1].start_ptr,
                                frames[F + 1].end_ptr - frames[F + 1].start_ptr,
                                "kBreakOnSwap")>>

\* C5 as claimed: from every cursor state, the initial one included,
\* SeekFrame(F) leaves the cursor on F's last command and submits the
\* replay of [F.start, F.end).
C5_SeekFrameAlwaysReplays ==
  \A j \in DOMAIN call_log :
    call_log[j].op = "SeekFrame" => SeekFrameDone(j)

\* C5 amended: that holds for every valid F other than the current frame
\* index; SeekFrame(F) with F the current frame index (as SeekFrame(0) on a
\* new player) submits nothing and leaves current_command_index as it was,
\* while current_frame() is frame F.
C5_SeekFrameReplaysOtherFrame ==
  \A j \in DOMAIN call_log :
    call_log[j].op = "SeekFrame" =>
      IF call_log[j].target # call_log[j].frame_index
      THEN SeekFrameDone(j)
      ELSE /\ PlaysOf(j) = <<>>
           /\ AfterCall(j).command_index = call_log[j].command_index
           /\ current_frame(AfterCall(j).frame_index)
                = frames[call_log[j].target + 1]

\* SeekFrame went to another frame while the cursor was inside a frame.
C5_Witness ==
  \E j \in DOMAIN call_log :
    /\ call_log[j].op = "SeekFrame"
    /\ call_log[j].target # call_log[j].frame_index
    /\ call_log[j].command_index # -1
    /\ Len(PlaysOf(j)) = 1

\* End offset of command p of frame f; before the first command (p = -1)
\* that is the frame's start.
CommandEnd(f, p) == IF p = -1 THEN f.start_ptr ELSE f.commands[p + 1].end_ptr

Range(from, to) == Closure(from, to - from, "kBreakOnSwap")

\* C6: SeekCommand(t) with t # p (the current command index) sets the index
\* to t and submits nothing when t = -1, the replay of [commands[p].end,
\* commands[t].end) when t = p + 1, and the replay of [frame.start,
\* commands[t].end) for every other t, always with BreakOnSwap.
C6_SeekCommandRanges ==
  \A j \in DOMAIN call_log :
    LET c == call_log[j]
        t == c.target
        p == c.command_index
        f == frames[c.frame_index + 1]
    IN  (c.op = "SeekCommand" /\ t # p) =>
          /\ AfterCall(j).command_index = t
          /\ AfterCall(j).frame_index = c.frame_index
          /\ PlaysOf(j) =
               IF t = -1 THEN <<>>
               ELSE IF t = p + 1
               THEN <<Range(CommandEnd(f, p), CommandEnd(f, t))>>
               ELSE <<Range(f.start_ptr, CommandEnd(f, t))>>

\* A single step forward from a command (the delta) and a seek backward
\* (from the frame's start) were both made.
C6_Witness ==
  /\ \E j \in DOMAIN call_log :
       /\ call_log[j].op = "SeekCommand"
       /\ call_log[j].command_index >= 0
       /\ call_log[j].target = call_log[j].command_index + 1
       /\ PlaysOf(j)[1].trace_data # frames[call_log[j].frame_index + 1].start_ptr
  /\ \E j \in DOMAIN call_log :
       /\ call_log[j].op = "SeekCommand"
       /\ call_log[j].target >= 0
       /\ call_log[j].target < call_log[j].command_index
       /\ Len(PlaysOf(j)) = 1

\* ---- C7 ----

\* C7: the swap mode is kIgnored while a replay invocation runs and kNormal
\* whenever no invocation is running, however the last one ended.
C7_SwapModeRestored ==
  /\ pc = "loop" => swap_mode = "kIgnored"
  /\ pc = "idle" => swap_mode = "kNormal"

\* ---- C8 ----

\* C8: the player is Replaying (playing_trace_ set) exactly while an
\* invocation runs; after the invocation has ended, by exhausting its range
\* or by stopping at a PacketEnd, the flag is false again.
C8_PlayingFlagCleared ==
  /\ pc = "loop" => playing_trace
  /\ pc = "idle" => ~playing_trace

\* ---- C9 ----

Count(seq, x) == Cardinality({i \in DOMAIN seq : seq[i] = x})

\* C9: at every moment the number of presentations issued equals the number
\* of invocations that ended by exhausting their range: one per such
\* invocation, none for an invocation that stopped at a PacketEnd, none
\* while records are being processed.
C9_PresentOnlyOnExhaustion ==
  /\ issued_swaps = Count(ended, "end")
  /\ (Returned /\ Last(ended) = "end") => ~(loc.trace_ptr < player_target)

\* One invocation stopped at a PacketEnd, another exhausted its range, and
\* a third is processing records.
C9_Witness ==
  /\ Count(ended, "return") = 1
  /\ Count(ended, "end") = 1
  /\ issued_swaps = 1
  /\ pc = "loop" /\ visited # <<>>

\* ---- C10 ----

\* The PacketStart that is pending when the record at visited[k] is reached.
OpenPacketAt(k) ==
  {visited[j] : j \in {j \in 1..(k - 1) :
      /\ IsType(visited[j], kPacketStart)
      /\ \A m \in (j + 1)..(k - 1) : ~IsType(visited[m], kPacketStart)
                                     /\ ~IsType(visited[m], kPacketEnd)}}

\* C10: an invocation under BreakOnSwap that ended by the stop, not by
\* reaching the end of its range, ended right after processing a PacketEnd
\* that follows an Event(Swap) of the same invocation; the packet pending at
\* that PacketEnd was executed and none is pending at the stop.
C10_StopsOnlyAtPacketEndAfterSwap ==
  (Returned /\ Last(ended) = "return") =>
       LET n == Len(visited)
       IN  /\ args.playback_mode = "kBreakOnSwap"
           /\ n >= 2
           /\ IsType(visited[n], kPacketEnd)
           /\ \E j \in 1..(n - 1) : IsSwap(visited[j])
           /\ loc.trace_ptr = visited[n] + SizeofPacketEnd
           /\ \A o \in OpenPacketAt(n) : ExecutedFor(o)
           /\ loc.pending_packet = NullPtr

\* An invocation stopped at the PacketEnd closing a packet that was open
\* when the Swap event came, before the end of its range.
C10_Witness ==
  /\ Returned /\ Last(ended) = "return"
  /\ loc.trace_ptr < player_target
  /\ OpenPacketAt(Len(visited)) # {}
  /\ \E j \in 1..Len(visited) :
       IsSwap(visited[j]) /\ OpenPacketAt(j) # {}

\* ---- C11 ----

\* Memory holds the payload of the PacketStart record at o at its base_ptr.
PacketWordsInMemory(o) ==
  LET base_ptr == Load32(trace_data, o + 4)
      count == Load32(trace_data, o + 8)
  IN  \A i \in 0..(count * 4 - 1) :
        (base_ptr + i) \in DOMAIN mem =>
          mem[base_ptr + i] = Byte(trace_data, o + SizeofPacketStart + i)

ExecutedAt(o) == {k \in DOMAIN executed : executed[k].at = o}

\* C11: right after a PacketStart is processed its count*4 payload bytes are
\* in physical memory at base_ptr, the packet is pending and ExecutePacket
\* has not been invoked for it; every ExecutePacket call is made at a
\* PacketEnd, for the packet pending there, with that packet's base_ptr and
\* count; and a PacketEnd reached with a packet pending makes exactly one
\* ExecutePacket call.
C11_PacketExecutedOnceAtPacketEnd ==
  ran # <<>> =>
    /\ (visited # <<>> /\ IsType(Last(visited), kPacketStart)) =>
         /\ PacketWordsInMemory(Last(visited))
         /\ loc.pending_packet = Last(visited)
         /\ ~ExecutedFor(Last(visited))
    /\ \A n \in DOMAIN executed :
         LET e == executed[n]
         IN  /\ IsType(e.at, kPacketEnd)
             /\ IsType(e.cmd, kPacketStart)
             /\ e.base_ptr = Load32(trace_data, e.cmd + 4)
             /\ e.count = Load32(trace_data, e.cmd + 8)
             /\ \E k \in DOMAIN visited :
                  visited[k] = e.at /\ OpenPacketAt(k) = {e.cmd}
    /\ \A k \in DOMAIN visited :
         IsType(visited[k], kPacketEnd) =>
           Cardinality(ExecutedAt(visited[k])) =
             IF OpenPacketAt(k) = {} THEN 0 ELSE 1

\* One invocation has executed two packets, each at its PacketEnd, and the
\* words of the second are in memory.
C11_Witness ==
  /\ Len(executed) = 2
  /\ executed[1].cmd # executed[2].cmd
  /\ PacketWordsInMemory(executed[2].cmd)
  /\ \E i \in 0..3 : mem[Load32(trace_data, executed[2].cmd + 4) + i] # 0

\* ---- C12 ----

\* C12: a PacketEnd processed while no packet is pending aborts the
\* invocation: no record after it is processed and the invocation does not
\* complete normally.
C12_PacketEndWithoutPacketAborts ==
  \A k \in DOMAIN visited :
    (ran # <<>> /\ IsType(visited[k], kPacketEnd) /\ OpenPacketAt(k) = {}) =>
      /\ Len(visited) = k
      /\ Returned => Last(ended) # "end"

\* ---- C13 ----

\* C13: a PacketStart processed while a packet is pending aborts the
\* invocation: the pending packet stays the earlier one, no record after
\* the PacketStart is processed and the invocation does not complete
\* normally.
C13_NestedPacketStartAborts ==
  \A k \in DOMAIN visited :
    (ran # <<>> /\ IsType(visited[k], kPacketStart) /\ OpenPacketAt(k) # {}) =>
      /\ Len(visited) = k
      /\ loc.pending_packet \in OpenPacketAt(k)
      /\ Returned => Last(ended) # "end"

\* ---- C15 ----

PassiveTypes ==
  {kMemoryWrite, kPrimaryBufferStart, kPrimaryBufferEnd, kIndirectBufferStart,
   kIndirectBufferEnd}

IsPassive(o) == \E type \in PassiveTypes : IsType(o, type)

\* The loop processes the record under the cursor in this step.
ProcessesRecord == pc = "loop" /\ visited' = Append(visited, loc.trace_ptr)

\* C15: a loop iteration on a MemoryWrite, PrimaryBufferStart/End or
\* IndirectBufferStart/End record leaves physical memory, the executed
\* packets, the pending packet and break, the swap mode and the presented
\* frames unchanged; it only moves the cursor past the record and its payload.
C15_PassiveRecordsOnlyAdvance ==
  [][(ProcessesRecord /\ IsPassive(loc.trace_ptr)) =>
       /\ mem' = mem
       /\ executed' = executed
       /\ issued_swaps' = issued_swaps
       /\ swap_mode' = swap_mode
       /\ playing_trace' = playing_trace
       /\ loc' = [loc EXCEPT !.trace_ptr =
                                loc.trace_ptr + RecordSize(trace_data, loc.trace_ptr)]
       /\ pc' = "loop"]_vars

\* All five passive record types have been processed, one of them with a
\* payload, and the cursor stands behind the last of them.
C15_Witness ==
  /\ pc = "loop"
  /\ \A type \in PassiveTypes :
       \E k \in DOMAIN visited : IsType(visited[k], type)
  /\ \E k \in DOMAIN visited :
       IsType(visited[k], kMemoryWrite) /\ Load32(trace_data, visited[k] + 4) > 0
  /\ IsType(Last(visited), kPrimaryBufferEnd)
  /\ loc.trace_ptr = Last(visited) + SizeofBufferEnd
  /\ mem = InitMem

\* ---- C18 ----

RangeEnd(fn) == fn.trace_data + fn.trace_size

\* The submitted replays that start at the start of frame f.
StartsOfFrame(f) ==
  {i \in DOMAIN submitted : submitted[i].trace_data = f.start_ptr}

Max(S) == CHOOSE x \in S : \A y \in S : y <= x

\* C18: whenever the current command index c is not -1, the last submitted
\* replay ends at commands[c].end of the current frame, and the replays
\* submitted since the last one that starts at the frame's start are
\* adjacent, so together they cover [frame.start, commands[c].end).
C18_SeekQueueContiguity ==
  current_command_index # -1 =>
    LET f == frame(current_frame_index)
        c == current_command_index
    IN  /\ StartsOfFrame(f) # {}
        /\ RangeEnd(Last(submitted)) = f.commands[c + 1].end_ptr
        /\ \A i \in Max(StartsOfFrame(f))..(Len(submitted) - 1) :
             RangeEnd(submitted[i]) = submitted[i + 1].trace_data

\* An incremental step follows a full replay of the first command, after an
\* earlier replay of another range.
C18_Witness ==
  /\ Len(submitted) = 3
  /\ current_command_index = 1
  /\ Max(StartsOfFrame(frame(current_frame_index))) = 2
  /\ submitted[3].trace_data = frame(current_frame_index).commands[1].end_ptr
  /\ submitted[3].trace_data > frame(current_frame_index).start_ptr

\* ---- C19 ----

\* sizeof(*cmd) of the record at offset o.
HeaderSize(o) ==
  CASE IsType(o, kPrimaryBufferStart) \/ IsType(o, kIndirectBufferStart) ->
         SizeofBufferStart
    [] IsType(o, kPrimaryBufferEnd) \/ IsType(o, kIndirectBufferEnd) ->
         SizeofBufferEnd
    [] IsType(o, kPacketStart) -> SizeofPacketStart
    [] IsType(o, kPacketEnd) -> SizeofPacketEnd
    [] IsType(o, kMemoryRead) -> SizeofMemoryRead
    [] IsType(o, kMemoryWrite) -> SizeofMemoryWrite
    [] IsType(o, kEvent) -> SizeofEvent

\* C19: on ranges of records with known tags, every loop iteration moves
\* the cursor forward by at least the header size of the record it
\* processes, and every running invocation ends (at the range end or at a
\* triggered stop).
C19_ReplayTerminates ==
  /\ [][ProcessesRecord =>
          loc'.trace_ptr >= loc.trace_ptr + HeaderSize(loc.trace_ptr)]_vars
  /\ (pc = "loop") ~> (pc = "idle")

\* An invocation over six or more records, Swap events among them, has
\* reached its range end.
C19_Witness ==
  /\ Returned
  /\ Last(ended) = "end"
  /\ Len(visited) >= 6
  /\ \E k \in DOMAIN visited : IsSwap(visited[k])
  /\ loc.trace_ptr = player_target

\* ---- C14 ----

KnownTags == kPrimaryBufferStart..kEvent

\* The loop has read the record under the cursor (player_current_ptr_ is
\* on it) and its tag is none of the known ones.
ReadUnknownTag ==
  /\ ran # <<>>
  /\ loc.trace_ptr < player_target
  /\ player_ptrs.current = loc.trace_ptr
  /\ Load32(trace_data, loc.trace_ptr) \notin KnownTags

\* C14: an invocation that has read a record with an unknown tag is over:
\* it stops at that record and the execution context is free for the next
\* queued replay.
C14_UnknownTagAborts == ReadUnknownTag => pc = "idle"

\* ---- C16 ----

\* The fields and payload of the MemoryRead record at offset o.
MemoryReadAt(o) ==
  [base_ptr |-> Load32(trace_data, o + 4),
   full_length |-> Load32(trace_data, o + 12),
   payload |-> Bytes(trace_data, o + SizeofMemoryRead, Load32(trace_data, o + 8))]

\* The declared length of the compressed block at o is not what it expands to.
LengthMismatch(o) ==
  /\ IsType(o, kMemoryRead)
  /\ MemoryReadAt(o).full_length > 0
  /\ Len(Decompress(MemoryReadAt(o).payload)) # MemoryReadAt(o).full_length

\* Physical memory holds data from address base on.
MemoryHolds(base, data) ==
  \A i \in 1..Len(data) :
    (base + i - 1) \in DOMAIN mem => mem[base + i - 1] = data[i]

\* C16: a MemoryRead with full_length = 0 puts its payload bytes into
\* physical memory at base_address as they are, one with full_length > 0
\* puts the decompressed payload there; and when the block does not expand
\* to full_length bytes the invocation aborts: no record after it is
\* processed and the invocation does not complete normally.
C16_MemoryReadAppliedOrAborts ==
  ran # <<>> =>
    /\ (visited # <<>> /\ IsType(Last(visited), kMemoryRead)
        /\ ~LengthMismatch(Last(visited))) =>
         LET r == MemoryReadAt(Last(visited))
         IN  MemoryHolds(r.base_ptr, IF r.full_length = 0 THEN r.payload
                                     ELSE Decompress(r.payload))
    /\ \A k \in DOMAIN visited :
         LengthMismatch(visited[k]) =>
           /\ Len(visited) = k
           /\ Returned => Last(ended) # "end"

\* ---- C17 ----

\* The record at offset o declares a payload that runs past the buffer end.
Overruns(o) ==
  /\ Load32(trace_data, o) \in KnownTags
  /\ o + RecordSize(trace_data, o) > Len(trace_data)

\* C17: the replay cursor never stands past the end of the trace buffer,
\* and an invocation that meets a record whose declared payload runs past
\* the buffer end fails there: no record after it is processed and the
\* invocation does not complete normally.
C17_NoAccessPastBufferEnd ==
  ran # <<>> =>
    /\ loc.trace_ptr <= Len(trace_data)
    /\ \A k \in DOMAIN visited :
         Overruns(visited[k]) =>
           /\ Len(visited) = k
           /\ Returned => Last(ended) # "end"

\* ---- C20 ----

\* C20: current_frame() answers with a frame only while current_frame_index
\* is a valid index, 0 <= index < frame_count; for every other index, the
\* index frame_count included, it answers with none.
C20_CurrentFrameOnlyForValidIndex ==
  current_frame(current_frame_index) # NullFrame =>
    current_frame_index \in 0..(frame_count - 1)

====
